---- MODULE Spec2Model ----
(***************************************************************************)
(* Model of check-security-updates.py: the Updates class (run,             *)
(* create_output, check_expired, check_cache, update_cache) and main.      *)
(*                                                                         *)
(* Abstractions.  A calendar date is a day number (Nat); timedelta(n) is   *)
(* n days.  A timestamp string is a record: whether it parses under        *)
(* "%Y-%m-%d %H:%M:%S", and if so its day and its time of day.  An         *)
(* advisory line is a leading-whitespace flag and its whitespace-separated *)
(* tokens; the regular expressions of run and check_expired are operators  *)
(* over the tokens.  The cache file is an existence flag and its csv rows, *)
(* each row the sequence of its fields.  Logging is modelled for the       *)
(* default level (INFO, verbose off): WARNING records go to stdout, ERROR  *)
(* and CRITICAL records to stderr.                                         *)
(***************************************************************************)
EXTENDS Integers, Sequences, FiniteSets, TLC

VARIABLES pc, rc, critical, important, moderate, low, next_patchdate, expired,
          cache, nokernel, today, output, idx, calls, stdout, stderr,
          exitcode, failure, result, message, ops

vars == <<pc, rc, critical, important, moderate, low, next_patchdate, expired,
          cache, nokernel, today, output, idx, calls, stdout, stderr,
          exitcode, failure, result, message, ops>>

(* ------------------------------ bounds ------------------------------- *)
\* lines in the listing command's output
MaxLines == 2
\* lines in a per-patch query's output
MaxInfoLines == 1
\* rows in the cache file of the cache specification, before any store
MaxCacheRows == 2
\* cache operations applied in the cache specification
MaxOps == 2
\* entries per bucket in the formatter specification
MaxCount == 1

(* ------------------------- program constants ------------------------- *)
OK == 0
WARNING == 1
CRITICAL == 2
UNKNOWN == 3
return_codes == <<"OK", "WARNING", "CRITICAL", "UNKNOWN">>
\* remediation windows passed to check_expired
CriticalDays == 30
ImportantDays == 90
ModerateDays == 90
LowDays == 90
\* Updates.__init__: rc before any command completed
InitialRc == -1
\* Python's None where a date (or an exit code) is expected
None == -1
\* exit status of the interpreter after an uncaught exception
UncaughtExit == 1

(* ------------------------------ dates -------------------------------- *)
\* release days found in the cache file and in the per-patch queries, and the
\* days a run happens on: before, on and after the end of a window
ReleaseDays == {0, 1}
QueryDays == {0}
Todays == {CriticalDays, ImportantDays}

Stamp(d, t) == [valid |-> TRUE, day |-> d, tod |-> t]
Garbage == [valid |-> FALSE, day |-> 0, tod |-> 0]

\* datetime.strptime(s, "%Y-%m-%d %H:%M:%S") raises ValueError unless s parses
parses(ts) == ts.valid
\* datetime.strptime(...).date(): the time of day is dropped
strptime_date(ts) == ts.day

\* a mutant of strftime: the row is written in a format the lookup cannot parse
strftime_dateonly(d) == Garbage
\* patch_date.strftime("%Y-%m-%d %H:%M:%S") of a date: midnight of that day
strftime(d) == Stamp(d, 0)

(* --------------------------- advisory lines -------------------------- *)
PatchIds == {"RHSA-1", "RHSA-2"}
Markers == {"Critical/Sec.", "Important/Sec.", "Moderate/Sec.", "Low/Sec."}
KernelToks == {"kernel-3.10", "kernel-chromium"}
BrowserToks == {"firefox-115", "kernel-chromium"}

Line(lead, toks) == [lead |-> lead, toks |-> toks]

Lines ==
  { Line(FALSE, <<"RHSA-1", "Critical/Sec.", "pkg-foo">>),
    Line(FALSE, <<"RHSA-2", "Important/Sec.", "pkg-bar">>),
    Line(FALSE, <<"RHSA-1", "Moderate/Sec.", "kernel-3.10">>),
    Line(FALSE, <<"RHSA-2", "Moderate/Sec.", "firefox-115">>),
    Line(FALSE, <<"RHSA-1", "Low/Sec.", "kernel-chromium">>),
    Line(FALSE, <<"RHSA-1", "Critical/Sec.", "pkg-foo", "Important/Sec.">>),
    Line(TRUE,  <<"RHSA-2", "Low/Sec.", "pkg-bar">>),
    Line(FALSE, <<"Loaded">>) }

SeqsUpTo(S, n) == UNION { [1..k -> S] : k \in 0..n }

MinOf(S) == CHOOSE x \in S : \A y \in S : x <= y
MaxOf(S) == CHOOSE x \in S : \A y \in S : x >= y
Tail_from(line, i) == SubSeq(line.toks, i, Len(line.toks))

\* re.search(r"/Sec.\s*(kernel.*)", line)
IsKernelTok(t) == t \in KernelToks
IsMarkerTok(t) == t \in Markers
kernel_match(line) ==
  \E i \in 1..(Len(line.toks) - 1) :
     IsMarkerTok(line.toks[i]) /\ IsKernelTok(line.toks[i + 1])

\* re.search(f"\s*{pkgs}", line) with pkgs = "(firefox.*|chrom.*)"
IsBrowserTok(t) == t \in BrowserToks
always_pos(line) == { i \in 1..Len(line.toks) : IsBrowserTok(line.toks[i]) }
always_match(line) == always_pos(line) # {}
always_group0(line) == Tail_from(line, MinOf(always_pos(line)))

\* re.search(r"<Tier>/Sec.\s*(.*)$", line)
Tiers == {"Critical", "Important", "Moderate", "Low"}
marker_of(tier) ==
  CASE tier = "Critical" -> "Critical/Sec."
    [] tier = "Important" -> "Important/Sec."
    [] tier = "Moderate" -> "Moderate/Sec."
    [] tier = "Low" -> "Low/Sec."
bucket_of(tier) ==
  CASE tier = "Critical" -> "critical"
    [] tier = "Important" -> "important"
    [] tier = "Moderate" -> "moderate"
    [] tier = "Low" -> "low"
days_of(tier) ==
  CASE tier = "Critical" -> CriticalDays
    [] tier = "Important" -> ImportantDays
    [] tier = "Moderate" -> ModerateDays
    [] tier = "Low" -> LowDays
marker_pos(tier, line) == { i \in 1..Len(line.toks) : line.toks[i] = marker_of(tier) }
marker_match(tier, line) == marker_pos(tier, line) # {}
marker_group0(tier, line) == Tail_from(line, MinOf(marker_pos(tier, line)))

\* re.match(r"([^\s]+)\s", line): a non-space token at the start, then whitespace
shape_ok(line) == ~line.lead /\ Len(line.toks) >= 2
\* m.group(0).strip()
patch_of(line) == line.toks[1]

(* ----------------------------- cache file ---------------------------- *)
NoFile == [exists |-> FALSE, rows |-> <<>>]
File(rows) == [exists |-> TRUE, rows |-> rows]

StoredStamps == { Stamp(d, 0) : d \in ReleaseDays } \cup {Garbage}
CacheRows ==
  {<<>>} \cup { <<p>> : p \in PatchIds }
         \cup { <<p, ts>> : p \in PatchIds, ts \in StoredStamps }
CacheFiles(n) == {NoFile} \cup { File(rows) : rows \in SeqsUpTo(CacheRows, n) }
\* the files a run may find: none, a blank line, a good row, a bad date
PriorCaches ==
  { NoFile, File(<< <<>> >>), File(<< <<"RHSA-1", Stamp(1, 0)>> >>),
    File(<< <<"RHSA-1", Garbage>> >>) }

\* a mutant of the scan: stop at the first row that matches (a break after line 284)
RECURSIVE csv_scan_first(_, _, _, _)
csv_scan_first(rows, i, patch, patch_date) ==
  IF i > Len(rows) THEN patch_date
  ELSE IF Len(rows[i]) = 0 THEN patch_date
  ELSE IF rows[i][1] # patch THEN csv_scan_first(rows, i + 1, patch, patch_date)
  ELSE IF Len(rows[i]) < 2 THEN patch_date
  ELSE IF ~parses(rows[i][2]) THEN patch_date
  ELSE strptime_date(rows[i][2])

\* the for loop of check_cache; any exception ends the scan with the
\* patch_date assigned so far (the try encloses the whole loop)
RECURSIVE csv_scan(_, _, _, _)
csv_scan(rows, i, patch, patch_date) ==
  IF i > Len(rows) THEN patch_date
  ELSE IF Len(rows[i]) = 0 THEN patch_date                   \* row[0]: IndexError
  ELSE IF rows[i][1] # patch THEN csv_scan(rows, i + 1, patch, patch_date)
  ELSE IF Len(rows[i]) < 2 THEN patch_date                   \* row[1]: IndexError
  ELSE IF ~parses(rows[i][2]) THEN patch_date                \* strptime: ValueError
  ELSE csv_scan(rows, i + 1, patch, strptime_date(rows[i][2]))

\* open() of a missing file raises inside the try: None
check_cache(c, patch) ==
  IF ~c.exists THEN None ELSE csv_scan(c.rows, 1, patch, None)

LogRec(level, text) == [src |-> "log", level |-> level, text |-> <<text>>]

\* wok: whether open(mode='a') and writerow succeed
update_cache(c, patch, patch_date, wok) ==
  IF wok
    THEN [ok |-> TRUE,
          cache |-> File(Append(c.rows, <<patch, strftime(patch_date)>>)),
          err |-> <<>>]
    ELSE [ok |-> FALSE, cache |-> c,
          err |-> <<LogRec("ERROR", "Error writing cache file")>>]

(* ------------------------ external commands -------------------------- *)
\* what subprocess.run(cmd, check=True, timeout=60, stdout=PIPE) followed by
\* stdout.decode('utf-8') can raise; UnicodeDecodeError is a ValueError
FailKinds == {"TimeoutExpired", "ValueError", "UnicodeDecodeError",
              "FileNotFoundError", "CalledProcessError"}
IsValueError(k) == k \in {"ValueError", "UnicodeDecodeError"}

\* the except clauses of run and of check_expired: exit code and log record.
\* A WARNING record passes the stdout handler's filter; a CRITICAL record is
\* written by the stderr handler only.
handler_code(k) ==
  IF k = "TimeoutExpired" \/ IsValueError(k) THEN UNKNOWN ELSE CRITICAL
handler_stdout(k) ==
  IF k = "TimeoutExpired" \/ IsValueError(k)
    THEN <<LogRec("WARNING", "exception text")>> ELSE <<>>
handler_stderr(k) ==
  IF k = "TimeoutExpired" \/ IsValueError(k) THEN <<>>
  ELSE IF k = "FileNotFoundError"
    THEN <<LogRec("CRITICAL", "CRITICAL: Missing program")>>
    ELSE <<LogRec("CRITICAL", "CRITICAL: exception text")>>

\* lines of "yum updateinfo info <patch>": other text, or "Updated: <timestamp>";
\* a query is what the command does (fail, out) and whether the cache writes that
\* follow it raise (wfail)
QueryStamps == { Stamp(d, 1) : d \in QueryDays } \cup {Garbage}
InfoLines == {[upd |-> FALSE, ts |-> Garbage]} \cup
             { [upd |-> TRUE, ts |-> ts] : ts \in QueryStamps }
InfoOutputs == SeqsUpTo(InfoLines, MaxInfoLines)
Oracle ==
  { [fail |-> k, out |-> <<>>, wfail |-> FALSE] : k \in FailKinds } \cup
  { [fail |-> "none", out |-> o, wfail |-> w] : o \in InfoOutputs, w \in BOOLEAN }
NoQuery == [fail |-> "none", out |-> <<>>, wfail |-> FALSE]

(* --------------------------- check_expired --------------------------- *)
\* the for loop over the query's output: every "Updated:" line is parsed (outside
\* any try) and, when it parses, stored in the cache
RECURSIVE scan_info(_, _, _, _, _)
scan_info(out, i, patch, wok, acc) ==
  IF i > Len(out) \/ acc.raised THEN acc
  ELSE IF ~out[i].upd THEN scan_info(out, i + 1, patch, wok, acc)
  ELSE IF ~parses(out[i].ts) THEN [acc EXCEPT !.raised = TRUE]
  ELSE LET d == strptime_date(out[i].ts)
           w == update_cache(acc.cache, patch, d, wok)
       IN scan_info(out, i + 1, patch, wok,
                    [raised |-> FALSE, patch_date |-> d, cache |-> w.cache,
                     stderr |-> acc.stderr \o w.err, writes |-> acc.writes + 1])

\* a mutant of the comparison: the day the window ends is not yet expired
is_expired_strict(day, expiration_date) == day > expiration_date
\* date.today() >= expiration_date
is_expired(day, expiration_date) == day >= expiration_date

\* a mutant of the else branch: a malformed line is reported as expired
malformed_expired(s, line, ln, days_limit) ==
  [s EXCEPT !.ret_expired = TRUE, !.ret_date = None,
            !.calls = Append(@, [line |-> ln, days |-> days_limit, shape |-> FALSE,
                                 read |-> FALSE, queried |-> FALSE, writes |-> 0,
                                 patch_date |-> None, kind |-> "return",
                                 expired |-> TRUE, date |-> None])]
\* the else branch of check_expired: log the line, return (False, None)
malformed(s, line, ln, days_limit) ==
  [s EXCEPT !.ret_expired = FALSE, !.ret_date = None,
            !.stderr = Append(@, LogRec("ERROR", "Patch line has wrong format")),
            !.calls = Append(@, [line |-> ln, days |-> days_limit, shape |-> FALSE,
                                 read |-> FALSE, queried |-> FALSE, writes |-> 0,
                                 patch_date |-> None, kind |-> "return",
                                 expired |-> FALSE, date |-> None])]

CallRec(ln, days_limit, queried, writes, patch_date, kind, exp, date) ==
  [line |-> ln, days |-> days_limit, shape |-> TRUE, read |-> TRUE,
   queried |-> queried, writes |-> writes, patch_date |-> patch_date,
   kind |-> kind, expired |-> exp, date |-> date]

\* s: the Updates object and the streams; ln: the line's number (for the call
\* record); day: date.today(); q: what the per-patch query does if it is made
check_expired(s, line, ln, days_limit, day, q) ==
  IF ~shape_ok(line) THEN malformed(s, line, ln, days_limit)
  ELSE
    LET patch == patch_of(line)
        cached == check_cache(s.cache, patch)
        queried == cached = None
        failed == queried /\ q.fail # "none"
        a == IF queried /\ ~failed
               THEN scan_info(q.out, 1, patch, ~q.wfail,
                              [raised |-> FALSE, patch_date |-> None,
                               cache |-> s.cache, stderr |-> <<>>, writes |-> 0])
               ELSE [raised |-> FALSE, patch_date |-> cached, cache |-> s.cache,
                     stderr |-> <<>>, writes |-> 0]
        expiration_date == IF a.patch_date # None THEN a.patch_date + days_limit
                           ELSE None
        exp == a.patch_date # None /\ is_expired(day, expiration_date)
    IN IF failed
         THEN [s EXCEPT !.kind = "exit", !.fail = q.fail,
                        !.code = handler_code(q.fail),
                        !.rc = IF q.fail = "UnicodeDecodeError" THEN 0 ELSE @,
                        !.stdout = @ \o handler_stdout(q.fail),
                        !.stderr = @ \o handler_stderr(q.fail),
                        !.calls = Append(@, CallRec(ln, days_limit, TRUE, 0, None,
                                                    "exit", FALSE, None))]
       ELSE IF a.raised
         THEN [s EXCEPT !.kind = "raise", !.code = UncaughtExit,
                        !.rc = 0, !.cache = a.cache,
                        !.stderr = (@ \o a.stderr) \o
                                   <<LogRec("TRACEBACK", "ValueError")>>,
                        !.calls = Append(@, CallRec(ln, days_limit, TRUE, a.writes,
                                                    a.patch_date, "raise", FALSE, None))]
       ELSE [s EXCEPT !.rc = IF queried THEN 0 ELSE @,
                      !.cache = a.cache,
                      !.stderr = @ \o a.stderr,
                      !.ret_expired = exp, !.ret_date = expiration_date,
                      !.calls = Append(@, CallRec(ln, days_limit, queried, a.writes,
                                                  a.patch_date, "return", exp,
                                                  expiration_date))]

(* -------------------------------- run -------------------------------- *)
\* one "if isinstance(m, Match)" block of the loop body: the lookup, then the
\* append; expired and expiration_date are overwritten by each block
tier_append(r, line, tier) ==
  IF r.kind # "ok" THEN r
  ELSE [r EXCEPT ![bucket_of(tier)] = Append(@, marker_group0(tier, line)),
                 !.l_expired = r.ret_expired,
                 !.l_date = r.ret_date]

\* what the lookup of a line can meet: no query is made for a line that fails
\* the shape check or whose patch the cache already answers
Queries(s, line) ==
  IF ~shape_ok(line) THEN {NoQuery}
  ELSE IF check_cache(s.cache, patch_of(line)) # None THEN {NoQuery}
  ELSE Oracle

\* the states the block can leave s in, one for each thing its query can do
tier_step(s, line, ln, tier, day) ==
  IF s.kind # "ok" \/ ~marker_match(tier, line) THEN {s}
  ELSE { tier_append(check_expired(s, line, ln, days_of(tier), day, q), line, tier) :
           q \in Queries(s, line) }
tier_steps(S, line, ln, tier, day) ==
  UNION { tier_step(s, line, ln, tier, day) : s \in S }

\* the end of the loop body: "if expired" and "if expiration_date"
line_end(s) ==
  IF s.kind # "ok" THEN s
  ELSE [s EXCEPT !.expired = @ \/ s.l_expired,
                 !.next_patchdate =
                    IF s.l_date = None THEN @
                    ELSE IF @ = None THEN s.l_date
                    ELSE IF @ > s.l_date THEN s.l_date ELSE @]

\* a mutant of the always-critical branch: the line is also filed by its marker
always_critical_falls_through(s, line) ==
  [s EXCEPT !.critical = Append(@, always_group0(line)),
            !.important = IF marker_match("Important", line)
                            THEN Append(@, marker_group0("Important", line)) ELSE @,
            !.moderate = IF marker_match("Moderate", line)
                            THEN Append(@, marker_group0("Moderate", line)) ELSE @,
            !.low = IF marker_match("Low", line)
                            THEN Append(@, marker_group0("Low", line)) ELSE @]
\* "Always warn about these packages": append the match, continue
always_critical(s, line) ==
  [s EXCEPT !.critical = Append(@, always_group0(line))]

\* one iteration of "for line in output": the states it can end in
run_line(s, line, ln, nk, day) ==
  IF kernel_match(line) /\ nk THEN {s}
  ELSE IF always_match(line) THEN {always_critical(s, line)}
  ELSE { line_end(s4) :
           s4 \in tier_steps(tier_steps(tier_steps(tier_steps({s},
                      line, ln, "Critical", day),
                      line, ln, "Important", day),
                      line, ln, "Moderate", day),
                      line, ln, "Low", day) }

(* --------------------------- create_output --------------------------- *)
\* a mutant of the order of the two tests: WARNING is decided last
create_output_warning_last(p_rc, c, i, m, l, p_expired, npd) ==
  IF ~(p_rc >= 0) THEN [result |-> UNKNOWN, message |-> <<return_codes[UNKNOWN + 1]>>]
  ELSE LET r1 == IF Len(c) > 0 THEN CRITICAL ELSE OK
           r2 == IF p_expired /\ (Len(i) > 0 \/ Len(m) > 0 \/ Len(l) > 0)
                   THEN WARNING ELSE r1
       IN [result |-> r2,
           message |-> <<return_codes[r2 + 1], Len(c), Len(i), Len(m), Len(l), npd,
                         Len(c), Len(i), Len(m), Len(l)>>]
\* the message is the sequence of its fields: the label alone, or the label, the
\* four counts, next_patch_date and the four perfdata values
create_output(p_rc, c, i, m, l, p_expired, npd) ==
  IF ~(p_rc >= 0) THEN [result |-> UNKNOWN, message |-> <<return_codes[UNKNOWN + 1]>>]
  ELSE LET r1 == IF p_expired /\ (Len(i) > 0 \/ Len(m) > 0 \/ Len(l) > 0)
                   THEN WARNING ELSE OK
           r2 == IF Len(c) > 0 THEN CRITICAL ELSE r1
       IN [result |-> r2,
           message |-> <<return_codes[r2 + 1], Len(c), Len(i), Len(m), Len(l), npd,
                         Len(c), Len(i), Len(m), Len(l)>>]

PrintRec(msg) == [src |-> "print", level |-> "", text |-> msg]

(* ------------------------- the run of main --------------------------- *)
Outputs == SeqsUpTo(Lines, MaxLines)

Init ==
  /\ pc = "init"
  /\ rc = InitialRc
  /\ critical = <<>> /\ important = <<>> /\ moderate = <<>> /\ low = <<>>
  /\ next_patchdate = None
  /\ expired = FALSE
  /\ cache \in PriorCaches
  /\ nokernel \in BOOLEAN
  /\ today \in Todays
  /\ output = <<>>
  /\ idx = 1
  /\ calls = <<>>
  /\ stdout = <<>> /\ stderr = <<>>
  /\ exitcode = None
  /\ failure = "none"
  /\ result = None
  /\ message = <<>>
  /\ ops = <<>>

PrimaryOutcomes ==
  { [fail |-> k, out |-> <<>>] : k \in FailKinds } \cup
  { [fail |-> "none", out |-> o] : o \in Outputs }

\* Updates.run up to the loop: the listing command and its except clauses
RunCommand ==
  /\ pc = "init"
  /\ \E r \in PrimaryOutcomes :
       /\ pc' = IF r.fail = "none" THEN "run" ELSE "exited"
       /\ rc' = IF r.fail \in {"none", "UnicodeDecodeError"} THEN 0 ELSE rc
       /\ output' = r.out
       /\ failure' = r.fail
       /\ exitcode' = IF r.fail = "none" THEN exitcode ELSE handler_code(r.fail)
       /\ stdout' = IF r.fail = "none" THEN stdout ELSE stdout \o handler_stdout(r.fail)
       /\ stderr' = IF r.fail = "none" THEN stderr ELSE stderr \o handler_stderr(r.fail)
  /\ UNCHANGED <<critical, important, moderate, low, next_patchdate, expired, cache,
                 nokernel, today, idx, calls, result, message, ops>>

Self ==
  [kind |-> "ok", fail |-> "none", code |-> None,
   critical |-> critical, important |-> important, moderate |-> moderate,
   low |-> low, next_patchdate |-> next_patchdate, expired |-> expired,
   cache |-> cache, rc |-> rc, stdout |-> stdout, stderr |-> stderr,
   calls |-> calls, l_expired |-> FALSE, l_date |-> None,
   ret_expired |-> FALSE, ret_date |-> None]

\* one iteration of the loop of Updates.run, with the queries it makes; a
\* failed query ends the process (sys.exit), an unparseable "Updated:" field
\* ends it with an uncaught ValueError
ProcessLine ==
  /\ pc = "run"
  /\ idx <= Len(output)
  /\ \E s \in run_line(Self, output[idx], idx, nokernel, today) :
          /\ pc' = CASE s.kind = "ok" -> "run"
                     [] s.kind = "exit" -> "exited"
                     [] s.kind = "raise" -> "crashed"
          /\ exitcode' = IF s.kind = "ok" THEN exitcode ELSE s.code
          /\ failure' = IF s.kind = "ok" THEN failure
                        ELSE IF s.kind = "exit" THEN s.fail ELSE "uncaught ValueError"
          /\ idx' = IF s.kind = "ok" THEN idx + 1 ELSE idx
          /\ critical' = s.critical /\ important' = s.important
          /\ moderate' = s.moderate /\ low' = s.low
          /\ next_patchdate' = s.next_patchdate
          /\ expired' = s.expired
          /\ cache' = s.cache
          /\ rc' = s.rc
          /\ stdout' = s.stdout /\ stderr' = s.stderr
          /\ calls' = s.calls
  /\ UNCHANGED <<nokernel, today, output, result, message, ops>>

\* main after run returned: create_output, print(message), exit(result)
Finish ==
  /\ pc = "run"
  /\ idx > Len(output)
  /\ LET o == create_output(rc, critical, important, moderate, low, expired,
                            next_patchdate)
     IN /\ result' = o.result
        /\ message' = o.message
        /\ stdout' = Append(stdout, PrintRec(o.message))
        /\ exitcode' = o.result
  /\ pc' = "done"
  /\ UNCHANGED <<rc, critical, important, moderate, low, next_patchdate, expired,
                 cache, nokernel, today, output, idx, calls, stderr, failure, ops>>

Next == RunCommand \/ ProcessLine \/ Finish

Spec == Init /\ [][Next]_vars

(* -------------------- the formatter on its own ---------------------- *)
Fill(n) == [k \in 1..n |-> <<"pkg-foo">>]

InitOut ==
  /\ pc = "classified"
  /\ rc \in {InitialRc, 0}
  /\ critical \in { Fill(n) : n \in 0..MaxCount }
  /\ important \in { Fill(n) : n \in 0..MaxCount }
  /\ moderate \in { Fill(n) : n \in 0..MaxCount }
  /\ low \in { Fill(n) : n \in 0..MaxCount }
  /\ next_patchdate \in {None, CriticalDays}
  /\ expired \in BOOLEAN
  /\ cache = NoFile
  /\ nokernel = FALSE
  /\ today = CriticalDays
  /\ output = <<>>
  /\ idx = 1
  /\ calls = <<>>
  /\ stdout = <<>> /\ stderr = <<>>
  /\ exitcode = None
  /\ failure = "none"
  /\ result = None
  /\ message = <<>>
  /\ ops = <<>>

\* create_output applied to the object as it stands
Format ==
  /\ pc = "classified"
  /\ LET o == create_output(rc, critical, important, moderate, low, expired,
                            next_patchdate)
     IN /\ result' = o.result
        /\ message' = o.message
  /\ pc' = "formatted"
  /\ UNCHANGED <<rc, critical, important, moderate, low, next_patchdate, expired,
                 cache, nokernel, today, output, idx, calls, stdout, stderr,
                 exitcode, failure, ops>>

NextOut == Format

SpecOut == InitOut /\ [][NextOut]_vars

(* ---------------------- the cache on its own ------------------------- *)
InitCache ==
  /\ pc = "cache"
  /\ rc = InitialRc
  /\ critical = <<>> /\ important = <<>> /\ moderate = <<>> /\ low = <<>>
  /\ next_patchdate = None
  /\ expired = FALSE
  /\ cache \in CacheFiles(MaxCacheRows)
  /\ nokernel = FALSE
  /\ today = CriticalDays
  /\ output = <<>>
  /\ idx = 1
  /\ calls = <<>>
  /\ stdout = <<>> /\ stderr = <<>>
  /\ exitcode = None
  /\ failure = "none"
  /\ result = None
  /\ message = <<>>
  /\ ops = <<>>

OpRec(op, patch, date, ok, prior) ==
  [op |-> op, patch |-> patch, date |-> date, ok |-> ok, prior |-> prior]

\* update_cache(patch, patch_date), the write succeeding or not
Store ==
  /\ pc = "cache"
  /\ Len(ops) < MaxOps
  /\ \E p \in PatchIds, d \in ReleaseDays, wok \in BOOLEAN :
       LET w == update_cache(cache, p, d, wok)
       IN /\ cache' = w.cache
          /\ stderr' = stderr \o w.err
          /\ ops' = Append(ops, OpRec("store", p, d, w.ok, cache))
  /\ UNCHANGED <<pc, rc, critical, important, moderate, low, next_patchdate,
                 expired, nokernel, today, output, idx, calls, stdout, exitcode,
                 failure, result, message>>

\* check_cache(patch)
Lookup ==
  /\ pc = "cache"
  /\ Len(ops) < MaxOps
  /\ \E p \in PatchIds :
       ops' = Append(ops, OpRec("lookup", p, check_cache(cache, p), TRUE, cache))
  /\ UNCHANGED <<pc, rc, critical, important, moderate, low, next_patchdate,
                 expired, cache, nokernel, today, output, idx, calls, stdout,
                 stderr, exitcode, failure, result, message>>

NextCache == Store \/ Lookup

SpecCache == InitCache /\ [][NextCache]_vars

(* ============================== claims ============================== *)
Classified == pc = "run" /\ idx > Len(output)
Returned == { i \in 1..Len(calls) : calls[i].kind = "return" }
AtLine == pc = "run" /\ idx <= Len(output)

\* C1: create_output returns UNKNOWN with the bare label when rc < 0; otherwise
\* CRITICAL when the Critical bucket is not empty, otherwise WARNING exactly when
\* the run is expired and one of Important, Moderate, Low is not empty,
\* otherwise OK.
C1_StatusTable ==
  pc = "formatted" =>
    IF rc < 0 THEN result = UNKNOWN /\ message = <<"UNKNOWN">>
    ELSE IF Len(critical) > 0 THEN result = CRITICAL
    ELSE IF expired /\ (Len(important) + Len(moderate) + Len(low) > 0)
      THEN result = WARNING
    ELSE result = OK
\* C1 witness: a Critical entry overrides the WARNING of an expired run
C1_Witness ==
  /\ pc = "formatted" /\ rc >= 0 /\ expired
  /\ Len(critical) > 0 /\ Len(important) > 0
  /\ result = CRITICAL

\* C2: no line, query output or cache content aborts classification (the run
\* never ends in an uncaught exception), and a lookup that determined no date
\* returned (False, None).
C2_RecoveredLocally ==
  /\ pc # "crashed"
  /\ \A i \in Returned :
       calls[i].patch_date = None => ~calls[i].expired /\ calls[i].date = None

FatalCode(k) == IF k \in {"TimeoutExpired", "ValueError"} THEN UNKNOWN ELSE CRITICAL
\* C3: a run ends either normally, with the single status line (counts included)
\* printed and the exit code equal to the status, or by a fatal external-call
\* failure, with UNKNOWN for a timeout or invalid arguments and CRITICAL for any
\* other failure, only the bare status label being printed.
C3_TwoEndings ==
  pc \in {"done", "exited", "crashed"} =>
    \/ /\ pc = "done"
       /\ stdout = <<PrintRec(message)>>
       /\ Len(message) > 1
       /\ exitcode = result
    \/ /\ pc = "exited"
       /\ failure \in FailKinds
       /\ exitcode = FatalCode(failure)
       /\ stdout = <<PrintRec(<<return_codes[exitcode + 1]>>)>>

\* C4: a lookup that knows the release date returns release date + days_limit,
\* and reports it expired exactly when today is on or after that date.
C4_ExpirationBoundary ==
  \A i \in Returned :
    (calls[i].shape /\ calls[i].patch_date # None) =>
      /\ calls[i].date = calls[i].patch_date + calls[i].days
      /\ calls[i].expired = (today >= calls[i].date)
\* C4 witness: a lookup returned an expiration date equal to today, as expired
C4_Witness ==
  \E i \in Returned :
    calls[i].patch_date # None /\ calls[i].date = today /\ calls[i].expired

StoreThenLookup ==
  { i \in 1..(Len(ops) - 1) :
      /\ ops[i].op = "store" /\ ops[i].ok
      /\ ops[i + 1].op = "lookup" /\ ops[i + 1].patch = ops[i].patch }
\* a row on which the scan for patch stops
Stops(row, patch) ==
  Len(row) = 0 \/ (row[1] = patch /\ (Len(row) < 2 \/ ~row[2].valid))
Stopping(rows, patch) == { j \in 1..Len(rows) : Stops(rows[j], patch) }
Scanned(rows, patch) ==
  IF Stopping(rows, patch) = {} THEN 1..Len(rows)
  ELSE 1..(MinOf(Stopping(rows, patch)) - 1)

\* C5 (as claimed): after a successful store of (id, date) a lookup of id returns
\* that date, whatever the file held before.
C5_RoundTripAnyPrior ==
  \A i \in StoreThenLookup : ops[i + 1].date = ops[i].date
\* C5 (amended): after a successful store of (id, date) a lookup of id returns
\* that date, provided the file held no row on which the scan for id stops (an
\* empty row, or a row of id whose date is missing or does not parse).
C5_RoundTripCleanPrior ==
  \A i \in StoreThenLookup :
    Stopping(ops[i].prior.rows, ops[i].patch) = {} => ops[i + 1].date = ops[i].date
\* C5 witness: a date stored over an older, different row of the same id is the
\* one the lookup returns
C5_Witness ==
  \E i \in StoreThenLookup :
    /\ Stopping(ops[i].prior.rows, ops[i].patch) = {}
    /\ \E j \in 1..Len(ops[i].prior.rows) :
         /\ ops[i].prior.rows[j][1] = ops[i].patch
         /\ ops[i].prior.rows[j][2].day # ops[i].date
    /\ ops[i + 1].date = ops[i].date

Lookups == { i \in 1..Len(ops) : ops[i].op = "lookup" }
Matching(rows, patch) ==
  { j \in 1..Len(rows) : Len(rows[j]) > 0 /\ rows[j][1] = patch }
\* C6 (as claimed): when several rows carry the identifier, the lookup returns
\* the date of the first of them in file order.
C6_FirstMatchWins ==
  \A i \in Lookups :
    LET rows == ops[i].prior.rows
        M == Matching(rows, ops[i].patch)
    IN (Cardinality(M) >= 2 /\ ~Stops(rows[MinOf(M)], ops[i].patch)) =>
         ops[i].date = rows[MinOf(M)][2].day
\* C6 (amended): the lookup returns the date of the last row carrying the
\* identifier among the rows scanned before the scan stops, None if there is none.
C6_LastScannedMatchWins ==
  \A i \in Lookups :
    LET rows == ops[i].prior.rows
        M == Matching(rows, ops[i].patch) \cap Scanned(rows, ops[i].patch)
    IN ops[i].date = IF M = {} THEN None ELSE rows[MaxOf(M)][2].day
\* C6 witness: two scanned rows of the identifier with different dates, the
\* lookup returning the later row's
C6_Witness ==
  \E i \in Lookups :
    LET rows == ops[i].prior.rows
        M == Matching(rows, ops[i].patch) \cap Scanned(rows, ops[i].patch)
    IN /\ Cardinality(M) >= 2
       /\ rows[MinOf(M)][2].day # rows[MaxOf(M)][2].day
       /\ ops[i].date = rows[MaxOf(M)][2].day

CountsStep(dc, di, dm, dl) ==
  /\ Len(critical') = Len(critical) + dc
  /\ Len(important') = Len(important) + di
  /\ Len(moderate') = Len(moderate) + dm
  /\ Len(low') = Len(low) + dl
NoLookupStep == cache' = cache /\ calls' = calls
Excluded(line) == nokernel /\ kernel_match(line)

\* C7 (as claimed): processing a line that matches the always-critical pattern
\* adds one entry to Critical, none to the other buckets, and makes no lookup.
C7_AlwaysCriticalCounted ==
  [][(AtLine /\ always_match(output[idx])) =>
       (CountsStep(1, 0, 0, 0) /\ NoLookupStep)]_vars
\* C7 (amended): the same, unless kernel exclusion is on and the line matches
\* the kernel pattern; such a line is counted nowhere.
C7_AlwaysCriticalUnlessExcluded ==
  [][(AtLine /\ always_match(output[idx])) =>
       /\ NoLookupStep
       /\ pc' = "run" /\ idx' = idx + 1
       /\ IF Excluded(output[idx]) THEN CountsStep(0, 0, 0, 0)
          ELSE CountsStep(1, 0, 0, 0)]_vars
\* C7 witness: an always-critical line with a severity marker was processed and
\* is in Critical
C7_Witness ==
  /\ pc = "run" /\ idx > 1
  /\ always_match(output[idx - 1]) /\ ~Excluded(output[idx - 1])
  /\ marker_match("Moderate", output[idx - 1])
  /\ Len(critical) > 0 /\ Len(moderate) = 0

\* C8: once all lines are processed, the run is marked expired if any lookup of
\* the run returned expired.
C8_AnyExpiredMarksRun ==
  Classified => ((\E i \in Returned : calls[i].expired) => expired)

ReturnedDates == { calls[i].date : i \in Returned } \ {None}
\* C9: once all lines are processed, next_patchdate is the minimum of the
\* expiration dates the lookups of the run returned, None if there is none.
C9_NextPatchdateIsMinimum ==
  Classified =>
    next_patchdate = IF ReturnedDates = {} THEN None ELSE MinOf(ReturnedDates)

WrongFormat(n) == [k \in 1..n |-> LogRec("ERROR", "Patch line has wrong format")]
\* C10 (as claimed): a line failing the shape check is skipped: it changes no
\* bucket count, and the run continues with the next line.
C10_MalformedSkipped ==
  [][(AtLine /\ ~shape_ok(output[idx])) =>
       /\ CountsStep(0, 0, 0, 0)
       /\ pc' = "run" /\ idx' = idx + 1]_vars
Inc(tier, line) ==
  IF Excluded(line) THEN 0
  ELSE IF always_match(line) THEN (IF tier = "Critical" THEN 1 ELSE 0)
  ELSE IF marker_match(tier, line) THEN 1 ELSE 0
Blocks(line) ==
  IF Excluded(line) \/ always_match(line) THEN 0
  ELSE Cardinality({ tier \in Tiers : marker_match(tier, line) })
\* C10 (amended): a line failing the shape check never aborts the run and
\* changes neither the cache, the expired flag nor next_patchdate; but it is
\* counted in every bucket whose marker it matches (in Critical if it is
\* always-critical, nowhere if kernel-excluded), and it is logged as malformed
\* once per lookup made for it, each lookup returning (False, None) without
\* reading the cache or querying.
C10_MalformedCounted ==
  [][(AtLine /\ ~shape_ok(output[idx])) =>
       /\ pc' = "run" /\ idx' = idx + 1
       /\ CountsStep(Inc("Critical", output[idx]), Inc("Important", output[idx]),
                     Inc("Moderate", output[idx]), Inc("Low", output[idx]))
       /\ stderr' = stderr \o WrongFormat(Blocks(output[idx]))
       /\ Len(calls') = Len(calls) + Blocks(output[idx])
       /\ \A i \in (Len(calls) + 1)..Len(calls') :
            /\ ~calls'[i].read /\ ~calls'[i].queried
            /\ ~calls'[i].expired /\ calls'[i].date = None
       /\ cache' = cache /\ expired' = expired
       /\ next_patchdate' = next_patchdate]_vars
\* C10 witness: a malformed line with a Low marker was processed: it is in the
\* Low bucket, logged, and the run went on
C10_Witness ==
  /\ pc = "run" /\ idx > 1
  /\ ~shape_ok(output[idx - 1]) /\ marker_match("Low", output[idx - 1])
  /\ Len(low) > 0
  /\ \E i \in 1..Len(calls) : calls[i].line = idx - 1 /\ ~calls[i].shape

====
